---- MODULE Spec2Model ----
(***************************************************************************)
(* Model of the AWS cost analyzer run: analyze() of src/src/analyzer.ts,   *)
(* the planner and the tool-calling call of src/unnamed/part_001 (llm.ts), *)
(* the step report writer of src/src/report-generator.ts.                  *)
(*                                                                         *)
(* Every await of analyze() is a suspension point, so one action models    *)
(* the code between two awaits.  External collaborators (the model         *)
(* provider, the data source, the file system) answer nondeterministically *)
(* with a value or an exception.                                           *)
(***************************************************************************)
EXTENDS Integers, Sequences, FiniteSets, TLC

VARIABLES
    variant,    \* which analyzeWithTools is linked: "adapter" (part_001) or "legacy" (src/src/llm.ts)
    pc,         \* state of the run (analyze)
    subjects,   \* what getTopServiceRegionCombos returned: "empty" or "some" ("unknown" before)
    planned,    \* TRUE once planAnalysis has returned a plan
    plan,       \* plan.steps
    i,          \* index of the for loop of analyze (1-based)
    spc,        \* position inside the current step / inside the compilation
    err,        \* kind of the exception caught for the current step
    built,      \* built[k]: names of the adapters createTools built for step k
    called,     \* called[k]: the tool-calling model call was issued for step k
    turns,      \* model turns made by the tool-calling loop of the current step
    text,       \* text of the latest model turn
    calls,      \* tool invocations requested by the latest model turn
    finished,   \* indices of calls whose adapter has returned, in completion order
    responses,  \* tool responses appended to the conversation for the latest turn
    toolFailed, \* an adapter call of the latest tool round returned an error result
    narrative,  \* value returned by executeAnalysisStep for the current step
    results,    \* results array of analyze
    files,      \* report files written so far
    compiled,   \* what compileComprehensiveReport returned
    report,     \* the prompt it built and the text it returned
    abortMsg,   \* message of the error analyze() threw
    requested,  \* argument of a direct validateTools call
    verdict,    \* outcome of that call
    runIds,     \* runIds[r]: the executionId run r was started with
    written,    \* report files written by the runs
    artifacts,  \* artifact writes of the adapter calls, in the order they happen
    minted,     \* identifiers handed out so far by the ULID generator
    cost,       \* a getTopServiceRegionCombos call: its input and what it returned
    chart,      \* a tool adapter call with its chart rendering
    regen       \* a generateReportFromExisting call and the execution directory

vars == <<variant, pc, subjects, planned, plan, i, spc, err, built, called,
          turns, text, calls, finished, responses, toolFailed, narrative,
          results, files, compiled, report, abortMsg, requested, verdict,
          runIds, written, artifacts, minted, cost, chart, regen>>

----------------------------------------------------------------------------
(* Bounds *)

\* steps in a plan
MaxSteps == 2
\* tool invocations the model requests in one turn
MaxCalls == 2
\* names passed to a direct validateTools call
MaxReq == 3
\* turns of a step, counted from its first, in which an adapter call may fail
MaxFailTurn == 5

(* Program constants *)

\* part_001: generateText({... maxSteps: 99 ...})
maxSteps == 99
\* src/src/llm.ts: generateText({... maxSteps: 5 ...})
legacyMaxSteps == 5

----------------------------------------------------------------------------
(* Small helpers *)

Range(s) == {s[k] : k \in 1..Len(s)}

SeqsUpTo(S, n) == UNION {[1..m -> S] : m \in 0..n}

----------------------------------------------------------------------------
(* The capability catalog: tools.map(tool => tool.name) *)

tools == <<"toolX", "toolY">>

\* names a planner or a caller may come up with; toolZ and toolW are in no catalog
Names == {"toolX", "toolY", "toolZ", "toolW"}

NoVerdict == [threw |-> FALSE, invalidTools |-> <<>>, availableTools |-> <<>>]

validateTools_Inverted(requestedTools) ==
    LET availableTools == tools
        includes(t)    == t \in Range(availableTools)
        invalidTools   == SelectSeq(requestedTools, includes)
    IN  IF Len(invalidTools) > 0
        THEN [threw |-> TRUE, invalidTools |-> invalidTools,
              availableTools |-> availableTools]
        ELSE NoVerdict

validateTools_FirstOnly(requestedTools) ==
    LET availableTools == tools
        absent(t)      == t \notin Range(availableTools)
        firstOnly      == IF requestedTools = <<>> THEN <<>> ELSE <<Head(requestedTools)>>
        invalidTools   == SelectSeq(firstOnly, absent)
    IN  IF Len(invalidTools) > 0
        THEN [threw |-> TRUE, invalidTools |-> invalidTools,
              availableTools |-> availableTools]
        ELSE NoVerdict

\* validateTools: throws iff the filtered list of unknown names is not empty;
\* the message carries that list and the whole catalog.  SelectSeq is
\* Array.prototype.filter: it keeps the order and the repetitions.
validateTools(requestedTools) ==
    LET availableTools == tools
        absent(t)      == t \notin Range(availableTools)
        invalidTools   == SelectSeq(requestedTools, absent)
    IN  IF Len(invalidTools) > 0
        THEN [threw |-> TRUE, invalidTools |-> invalidTools,
              availableTools |-> availableTools]
        ELSE NoVerdict

----------------------------------------------------------------------------
(* Plans the planner may return: AnalysisStep = {title, service, region,   *)
(* useTools}.  The service (with its region) names the step report file.   *)

StepChoices ==
    { [service |-> "A", region |-> "r1", useTools |-> <<"toolX">>],
      [service |-> "B", region |-> "r1", useTools |-> <<"toolX">>],
      [service |-> "A", region |-> "r1", useTools |-> <<"toolX", "toolZ">>] }

Plans == SeqsUpTo(StepChoices, MaxSteps)

\* generateAnalysisPaths: {base}/{executionId}/{serviceRegion}-analysis.md
generateAnalysisPaths(serviceRegion) == <<serviceRegion, "analysis.md">>

\* path.join(reportDir, 'report.md')
comprehensiveReportPath == <<"report.md">>

stepBudget_Same(v) == maxSteps

\* the step budget handed to generateText by the linked analyzeWithTools
stepBudget(v) == IF v = "legacy" THEN legacyMaxSteps ELSE maxSteps

\* the runs that may share an output directory
Runs == {"run1", "run2"}

\* nothing compiled yet
NoFallback == [generated |-> "never", total |-> 0, successful |-> 0, listing |-> <<>>]

NoReport == [total |-> 0, overview |-> <<>>, fallback |-> NoFallback]

----------------------------------------------------------------------------
(* Initial state: analyze() has been called and nothing has run yet        *)

Init ==
    /\ variant \in {"adapter", "legacy"}
    /\ pc = "Init"
    /\ subjects = "unknown"
    /\ planned = FALSE
    /\ plan = <<>>
    /\ i = 0
    /\ spc = "none"
    /\ err = "none"
    /\ built = <<>>
    /\ called = <<>>
    /\ turns = 0
    /\ text = ""
    /\ calls = <<>>
    /\ finished = <<>>
    /\ responses = <<>>
    /\ toolFailed = FALSE
    /\ narrative = ""
    /\ results = <<>>
    /\ files = {}
    /\ compiled = "none"
    /\ report = NoReport
    /\ abortMsg = <<>>
    /\ requested = <<>>
    /\ verdict = NoVerdict
    /\ runIds = [r \in Runs |-> "unset"]
    /\ written = {}
    /\ artifacts = <<>>
    /\ minted = 0
    /\ cost = "none"
    /\ chart = "none"
    /\ regen = "none"

loopVars == <<turns, text, calls, finished, responses, toolFailed>>

storeVars == <<runIds, written, artifacts, minted>>

sideVars == <<cost, chart, regen>>

\* the outer catch of analyze: throw new Error(`Analysis failed: ${errorMessage}`)
Abort(cause) ==
    /\ pc' = "Aborted"
    /\ abortMsg' = <<"Analysis failed">> \o cause

----------------------------------------------------------------------------
(* analyze(): from the call to the plan                                    *)

\* await fs.ensureDir(outputDir)
EnsureOutputDir ==
    /\ pc = "Init"
    /\ \/ /\ pc' = "FetchingSubjects"
          /\ UNCHANGED abortMsg
       \/ Abort(<<"fs">>)
    /\ UNCHANGED <<variant, subjects, planned, plan, i, spc, err, built, called, loopVars,
                   narrative, results, files, compiled, report, requested, verdict, storeVars, sideVars>>

serviceRegionCombosEmpty_Never(combos) == FALSE

\* if (serviceRegionCombos.length === 0) { ...; return []; }
serviceRegionCombosEmpty(combos) == combos = "empty"

\* await getTopServiceRegionCombos(...); an empty list returns [] at once
FetchSubjects ==
    /\ pc = "FetchingSubjects"
    /\ \/ \E combos \in {"empty", "some"} :
            /\ subjects' = combos
            /\ pc' = IF serviceRegionCombosEmpty(combos) THEN "Done" ELSE "Planning"
            /\ UNCHANGED abortMsg
       \/ /\ Abort(<<"Failed to fetch service-region combinations", "provider">>)
          /\ UNCHANGED subjects
    /\ UNCHANGED <<variant, planned, plan, i, spc, err, built, called, loopVars,
                   narrative, results, files, compiled, report, requested, verdict, storeVars, sideVars>>

\* planAnalysis: generateObject returns the structured plan, or its error is
\* rethrown as `Failed to plan analysis: ...`
planAnalysis_Swallow ==
    /\ pc = "Planning"
    /\ \/ \E p \in Plans :
            /\ planned' = TRUE
            /\ plan' = p
       \/ /\ planned' = FALSE
          /\ plan' = <<>>
    /\ built' = [k \in 1..Len(plan') |-> {}]
    /\ called' = [k \in 1..Len(plan') |-> FALSE]
    /\ IF Len(plan') = 0
       THEN pc' = "Compiling" /\ spc' = "compile" /\ i' = 0
       ELSE pc' = "ExecutingSteps" /\ spc' = "start" /\ i' = 1
    /\ UNCHANGED <<variant, subjects, err, loopVars, narrative, results, files, compiled, report,
                   abortMsg, requested, verdict, storeVars, sideVars>>

planAnalysis ==
    /\ pc = "Planning"
    /\ \/ \E p \in Plans :
            /\ planned' = TRUE
            /\ plan' = p
            /\ built' = [k \in 1..Len(p) |-> {}]
            /\ called' = [k \in 1..Len(p) |-> FALSE]
            /\ IF Len(p) = 0
               THEN pc' = "Compiling" /\ spc' = "compile" /\ i' = 0
               ELSE pc' = "ExecutingSteps" /\ spc' = "start" /\ i' = 1
            /\ UNCHANGED abortMsg
       \/ /\ Abort(<<"Failed to plan analysis", "provider">>)
          /\ UNCHANGED <<planned, plan, built, called, i, spc>>
    /\ UNCHANGED <<variant, subjects, err, loopVars, narrative, results, files, compiled, report,
                   requested, verdict, storeVars, sideVars>>

----------------------------------------------------------------------------
(* executeAnalysisStep                                                     *)

\* createTools(step.useTools, ...): one adapter per requested name
createTools(useTools) == Range(useTools)

executeAnalysisStep_BuildFirst ==
    /\ pc = "ExecutingSteps"
    /\ spc = "start"
    /\ LET step == plan[i]
           v    == validateTools(step.useTools)
       IN  /\ built' = [built EXCEPT ![i] = createTools(step.useTools)]
           /\ IF v.threw
              THEN /\ spc' = "catch"
                   /\ err' = "validation"
                   /\ UNCHANGED loopVars
              ELSE /\ spc' = "model"
                   /\ turns' = 0
                   /\ text' = ""
                   /\ calls' = <<>>
                   /\ finished' = <<>>
                   /\ responses' = <<>>
                   /\ toolFailed' = FALSE
                   /\ UNCHANGED err
    /\ UNCHANGED <<variant, subjects, pc, planned, plan, i, called, narrative, results,
                   files, compiled, report, abortMsg, requested, verdict, storeVars, sideVars>>

executeAnalysisStep_Eager ==
    /\ pc = "ExecutingSteps"
    /\ spc = "start"
    /\ LET step == plan[i]
           v    == validateTools(step.useTools)
       IN  IF v.threw
           THEN /\ spc' = "catch"
                /\ err' = "validation"
                /\ UNCHANGED <<built, loopVars>>
           ELSE /\ built' = [k \in 1..Len(plan) |->
                               IF k >= i /\ ~validateTools(plan[k].useTools).threw
                               THEN createTools(plan[k].useTools)
                               ELSE built[k]]
                /\ spc' = "model"
                /\ turns' = 0
                /\ text' = ""
                /\ calls' = <<>>
                /\ finished' = <<>>
                /\ responses' = <<>>
                /\ toolFailed' = FALSE
                /\ UNCHANGED err
    /\ UNCHANGED <<variant, subjects, pc, planned, plan, i, called, narrative, results,
                   files, compiled, report, abortMsg, requested, verdict, storeVars, sideVars>>

\* validateTools, createTools and the call of analyzeWithTools run without
\* an await in between: the step reaches the first model call or throws.
executeAnalysisStep ==
    /\ pc = "ExecutingSteps"
    /\ spc = "start"
    /\ LET step == plan[i]
           v    == validateTools(step.useTools)
       IN  IF v.threw
           THEN /\ spc' = "catch"
                /\ err' = "validation"
                /\ UNCHANGED <<built, loopVars>>
           ELSE /\ built' = [built EXCEPT ![i] = createTools(step.useTools)]
                /\ spc' = "model"
                /\ turns' = 0
                /\ text' = ""
                /\ calls' = <<>>
                /\ finished' = <<>>
                /\ responses' = <<>>
                /\ toolFailed' = FALSE
                /\ UNCHANGED err
    /\ UNCHANGED <<variant, subjects, pc, planned, plan, i, called, narrative, results,
                   files, compiled, report, abortMsg, requested, verdict, storeVars, sideVars>>

----------------------------------------------------------------------------
(* analyzeWithTools: generateText({model, prompt, tools, maxSteps})        *)

\* the text a model turn may end the loop with: a plain narrative, or one
\* that speaks of failed jobs under a heading
Texts == {"narrative", "# Batch: Analysis Failed jobs"}

\* the text of one turn; the text that comes with tool requests is returned
\* only when the budget runs out, one value stands for it
TurnTexts(names) == IF names = <<>> THEN Texts ELSE {"narrative"}

\* the requests of one turn: each names a tool of the step's tool set
CallSeqs(toolSet) == SeqsUpTo(toolSet, MaxCalls)

MkCalls(t, names) == [k \in 1..Len(names) |-> [id |-> <<t, k>>, tool |-> names[k]]]

\* the loop goes on after a turn that requested tools while budget is left
LoopContinues(t, cs, budget) == Len(cs) > 0 /\ t < budget

ToolResponses_CompletionOrder(cs, order) ==
    [k \in 1..Len(cs) |-> [id |-> cs[order[k]].id, tool |-> cs[order[k]].tool]]

\* the tool responses of a turn: one per request, in the order of the requests
ToolResponses(cs, order) ==
    [k \in 1..Len(cs) |-> [id |-> cs[k].id, tool |-> cs[k].tool]]

analyzeWithToolsReturn_Strict(result) ==
    IF result.toolCalls # <<>>
    THEN [threw |-> TRUE, text |-> ""]
    ELSE [threw |-> FALSE, text |-> result.text]

\* the try block of analyzeWithTools: return result.text, whatever made the
\* loop stop
analyzeWithToolsReturn(result) == [threw |-> FALSE, text |-> result.text]

\* generateText has returned `result`: executeAnalysisStep returns or rethrows
LoopEnds(result) ==
    LET r == analyzeWithToolsReturn(result)
    IN  IF r.threw
        THEN spc' = "catch" /\ err' = "model" /\ UNCHANGED narrative
        ELSE spc' = "report" /\ narrative' = r.text /\ UNCHANGED err

\* one model turn of the loop; the provider may raise, which analyzeWithTools
\* rethrows as `Failed to analyze with tools: ...`
ModelTurn ==
    /\ pc = "ExecutingSteps"
    /\ spc = "model"
    /\ called' = [called EXCEPT ![i] = TRUE]
    /\ \/ /\ spc' = "catch"
          /\ err' = "model"
          /\ UNCHANGED <<loopVars, narrative>>
       \/ \E names \in CallSeqs(built[i]) : \E txt \in TurnTexts(names) :
            /\ turns' = turns + 1
            /\ text' = txt
            /\ calls' = MkCalls(turns + 1, names)
            /\ finished' = <<>>
            /\ responses' = <<>>
            /\ toolFailed' = (Len(names) = 0 /\ toolFailed)
            /\ IF Len(names) > 0
               THEN spc' = "tools" /\ UNCHANGED <<err, narrative>>
               ELSE LoopEnds([text |-> txt, steps |-> turns + 1, toolCalls |-> <<>>])
    /\ UNCHANGED <<variant, subjects, pc, planned, plan, i, built, results, files,
                   compiled, report, abortMsg, requested, verdict, storeVars, sideVars>>

\* what may happen inside one adapter call: the data source call raises
\* ("invoke"), and in the adapter module the data cannot be persisted
\* ("persist") or the chart cannot be rendered or critiqued ("render");
\* t is the turn of the call, failures are explored up to turn MaxFailTurn
Outcomes(v, t) ==
    IF t > MaxFailTurn
    THEN {"ok"}
    ELSE IF v = "legacy" THEN {"ok", "invoke"} ELSE {"ok", "invoke", "persist", "render"}

execute_Rethrow(outcome) ==
    IF outcome = "ok"
    THEN [threw |-> FALSE, result |-> "data"]
    ELSE [threw |-> TRUE, result |-> "none"]

\* execute of an adapter: try { return await invoke(...) } catch (error)
\* { return { error: message } }
execute(outcome) ==
    IF outcome = "ok"
    THEN [threw |-> FALSE, result |-> "data"]
    ELSE [threw |-> FALSE, result |-> "error"]

\* the adapter of one requested invocation returns (adapters of a turn run
\* concurrently); an adapter that threw would make generateText reject, which
\* analyzeWithTools rethrows into the catch of the step
ToolFinish ==
    /\ pc = "ExecutingSteps"
    /\ spc = "tools"
    /\ \E k \in 1..Len(calls), o \in Outcomes(variant, turns) :
         /\ k \notin Range(finished)
         /\ LET r == execute(o)
            IN  IF r.threw
                THEN /\ spc' = "catch"
                     /\ err' = "model"
                     /\ UNCHANGED <<finished, toolFailed>>
                ELSE /\ finished' = Append(finished, k)
                     /\ toolFailed' = (toolFailed \/ r.result = "error")
                     /\ UNCHANGED <<spc, err>>
    /\ UNCHANGED <<variant, subjects, pc, planned, plan, i, built, called, turns,
                   text, calls, responses, narrative, results, files, compiled,
                   report, abortMsg, requested, verdict, storeVars, sideVars>>

\* all adapters of the turn have returned: their responses are appended and
\* the loop takes its next turn, or stops when the budget is used up
AppendResponses ==
    /\ pc = "ExecutingSteps"
    /\ spc = "tools"
    /\ Len(finished) = Len(calls)
    /\ responses' = ToolResponses(calls, finished)
    /\ IF LoopContinues(turns, calls, stepBudget(variant))
       THEN spc' = "model" /\ UNCHANGED <<err, narrative>>
       ELSE LoopEnds([text |-> text, steps |-> turns, toolCalls |-> calls])
    /\ UNCHANGED <<variant, subjects, pc, planned, plan, i, built, called, turns, text,
                   calls, finished, toolFailed, results, files, compiled, report, abortMsg,
                   requested, verdict, storeVars, sideVars>>

----------------------------------------------------------------------------
(* analyze(): the body of the for loop after executeAnalysisStep           *)

\* `${sanitizedService}-${step.region}`; the service names of StepChoices hold
\* no white space, so step.service.replace(/\s+/g, '_') leaves them as they are
serviceRegion(step) == <<step.service, step.region>>

\* const failedAnalysis = `# Analysis Failed\n\nStep failed: ${errorMessage}`
failedAnalysis(e) == <<"# Analysis Failed", "Step failed", e>>

\* the for loop moves to the next step, or the run goes on to the compilation;
\* the locals of the iteration that ends (the step's narrative, the state of
\* its tool-calling loop) are gone
NextStep ==
    /\ IF i < Len(plan)
       THEN pc' = "ExecutingSteps" /\ i' = i + 1 /\ spc' = "start"
       ELSE pc' = "Compiling" /\ i' = i /\ spc' = "compile"
    /\ narrative' = ""
    /\ turns' = 0
    /\ text' = ""
    /\ calls' = <<>>
    /\ finished' = <<>>
    /\ responses' = <<>>
    /\ toolFailed' = FALSE

RecordFailure_Drop(res, k, path, content) == res

\* results.push([reportPath, failedAnalysis]); `step` remembers which step of
\* the plan the entry was pushed for
RecordFailure(res, k, path, content) ==
    Append(res, [step |-> k, path |-> path, failed |-> TRUE, content |-> content])

RecordSuccess_Marked(res, k, path, content) ==
    Append(res, [step |-> k, path |-> path, failed |-> TRUE,
                 content |-> <<"# Analysis Failed", "Step failed", "tool">>])

RecordSuccess_Unshift(res, k, path, content) ==
    <<[step |-> k, path |-> path, failed |-> FALSE, content |-> content]>> \o res

\* results.push([reportPath, analysisResult])
RecordSuccess(res, k, path, content) ==
    Append(res, [step |-> k, path |-> path, failed |-> FALSE, content |-> content])

\* try: generateStepReport(analysisResult, ...) then results.push; a failing
\* write lands in the catch of the step
generateStepReport ==
    /\ pc = "ExecutingSteps"
    /\ spc = "report"
    /\ LET path == generateAnalysisPaths(serviceRegion(plan[i]))
       IN  \/ /\ files' = files \cup {path}
              /\ results' = RecordSuccess(results, i, path, <<narrative>>)
              /\ NextStep
              /\ UNCHANGED err
           \/ /\ spc' = "catch"
              /\ err' = "write"
              /\ UNCHANGED <<pc, i, files, results, loopVars, narrative>>
    /\ UNCHANGED <<variant, subjects, planned, plan, built, called, compiled, report, abortMsg,
                   requested, verdict, storeVars, sideVars>>

\* catch: generateStepReport(failedAnalysis, ...) then results.push; nothing
\* guards this write, its exception reaches the outer catch of analyze
CatchStep ==
    /\ pc = "ExecutingSteps"
    /\ spc = "catch"
    /\ LET path == generateAnalysisPaths(serviceRegion(plan[i]))
       IN  \/ /\ files' = files \cup {path}
              /\ results' = RecordFailure(results, i, path, failedAnalysis(err))
              /\ NextStep
              /\ err' = "none"
              /\ UNCHANGED abortMsg
           \/ /\ Abort(<<"fs">>)
              /\ UNCHANGED <<i, spc, err, files, results, loopVars, narrative>>
    /\ UNCHANGED <<variant, subjects, planned, plan, built, called, compiled, report, requested,
                   verdict, storeVars, sideVars>>

----------------------------------------------------------------------------
(* Compilation                                                             *)

\* line.includes('Analysis Failed'), for the lines a narrative or a failure
\* notice of the model is made of
lineIncludesAnalysisFailed(line) ==
    line \in {"# Analysis Failed", "# Batch: Analysis Failed jobs"}

\* content.includes('Analysis Failed')
includesAnalysisFailed(content) ==
    \E k \in 1..Len(content) : lineIncludesAnalysisFailed(content[k])

\* what /^#\s+(.+)$/ captures on one line ("" when the line is no heading)
lineTitle(line) ==
    CASE line = "# Analysis Failed"             -> "Analysis Failed"
      [] line = "# Batch: Analysis Failed jobs" -> "Batch: Analysis Failed jobs"
      [] OTHER                                  -> ""

\* titleMatch ? titleMatch[1] : fallbackTitle; the m flag makes the first
\* heading line of the content match
titleOf(content, fallbackTitle) ==
    LET headings == SelectSeq(content, LAMBDA line : lineTitle(line) # "")
    IN  IF headings = <<>>
        THEN fallbackTitle
        ELSE [text |-> lineTitle(Head(headings)), n |-> 0]

\* results.map(...).filter(item => !item.content.includes('Analysis Failed'));
\* `Analysis ${index + 1}` is the title of a content without heading
analysisOverview(res) ==
    LET item(k) == [title        |-> titleOf(res[k].content, [text |-> "Analysis", n |-> k]),
                    relativePath |-> res[k].path,
                    content      |-> res[k].content]
        kept(it) == ~includesAnalysisFailed(it.content)
    IN  SelectSeq([k \in 1..Len(res) |-> item(k)], kept)

\* values of new Date() when the fallback report is made
Instants == {"t1", "t2"}

\* createFallbackReport: the header (time of generation, counts) and one
\* entry per element of results, in the order of results
createFallbackReport(res, now) ==
    LET successful(r) == ~includesAnalysisFailed(r.content)
        entry(k) ==
            [title  |-> titleOf(res[k].content, [text |-> "Analysis Report", n |-> 0]),
             status |-> IF successful(res[k]) THEN "Completed" ELSE "Failed",
             link   |-> res[k].path]
    IN  [generated  |-> now,
         total      |-> Len(res),
         successful |-> Len(SelectSeq(res, successful)),
         listing    |-> [k \in 1..Len(res) |-> entry(k)]]

\* compileComprehensiveReport: the prompt is built from analysisOverview, then
\* the synthesis call returns its text, or raises and createFallbackReport
\* makes the report
compileComprehensiveReport ==
    /\ pc = "Compiling"
    /\ spc = "compile"
    /\ LET prompt == [total |-> Len(results), overview |-> analysisOverview(results)]
       IN  \/ /\ compiled' = "synthesis"
              /\ report' = [total    |-> prompt.total,
                            overview |-> prompt.overview,
                            fallback |-> NoFallback]
           \/ \E now \in Instants :
                /\ compiled' = "fallback"
                /\ report' = [total    |-> prompt.total,
                              overview |-> prompt.overview,
                              fallback |-> createFallbackReport(results, now)]
    /\ spc' = "write"
    /\ UNCHANGED <<variant, subjects, pc, planned, plan, i, err, built, called, loopVars,
                   narrative, results, files, abortMsg, requested, verdict, storeVars, sideVars>>

\* fs.ensureDir(reportDir); fs.writeFile(comprehensiveReportPath, ...); return
WriteReport ==
    /\ pc = "Compiling"
    /\ spc = "write"
    /\ \/ /\ files' = files \cup {comprehensiveReportPath}
          /\ pc' = "Done"
          /\ UNCHANGED abortMsg
       \/ /\ Abort(<<"fs">>)
          /\ UNCHANGED files
    /\ UNCHANGED <<variant, subjects, planned, plan, i, spc, err, built, called, loopVars,
                   narrative, results, compiled, report, requested, verdict, storeVars, sideVars>>

----------------------------------------------------------------------------

Next ==
    \/ EnsureOutputDir
    \/ FetchSubjects
    \/ planAnalysis
    \/ executeAnalysisStep
    \/ ModelTurn
    \/ ToolFinish
    \/ AppendResponses
    \/ generateStepReport
    \/ CatchStep
    \/ compileComprehensiveReport
    \/ WriteReport

Spec == Init /\ [][Next]_vars

----------------------------------------------------------------------------
(* validateTools called on its own, on every list of at most MaxReq names  *)

InitValidate ==
    /\ variant = "adapter"
    /\ pc = "validate"
    /\ subjects = "unknown"
    /\ planned = FALSE
    /\ plan = <<>>
    /\ i = 0
    /\ spc = "none"
    /\ err = "none"
    /\ built = <<>>
    /\ called = <<>>
    /\ turns = 0
    /\ text = ""
    /\ calls = <<>>
    /\ finished = <<>>
    /\ responses = <<>>
    /\ toolFailed = FALSE
    /\ narrative = ""
    /\ results = <<>>
    /\ files = {}
    /\ compiled = "none"
    /\ report = NoReport
    /\ abortMsg = <<>>
    /\ requested \in SeqsUpTo(Names, MaxReq)
    /\ verdict = NoVerdict
    /\ runIds = [r \in Runs |-> "unset"]
    /\ written = {}
    /\ artifacts = <<>>
    /\ minted = 0
    /\ cost = "none"
    /\ chart = "none"
    /\ regen = "none"

ValidateCall ==
    /\ pc = "validate"
    /\ verdict' = validateTools(requested)
    /\ pc' = "validated"
    /\ UNCHANGED <<variant, subjects, planned, plan, i, spc, err, built, called, loopVars,
                   narrative, results, files, compiled, report, abortMsg, requested,
                   storeVars, sideVars>>

NextValidate == ValidateCall

SpecValidate == InitValidate /\ [][NextValidate]_vars

----------------------------------------------------------------------------
(* Where runs write: execution ids, report paths, tool artifacts.  Two     *)
(* runs share one output directory; their writes interleave freely.        *)

\* artifact writes of the adapter calls
MaxWrites == 3

\* the identifiers a ULID generator hands out, in the order it hands them out
Ulids == <<"01J1", "01J2", "01J3", "01J4", "01J5", "01J6", "01J7", "01J8">>

\* baseOutputPath
outputRoot == "output"

\* service names of planned steps, split at "/": "A" and "../A"
StoreServices == { <<"A">>, <<"..", "A">> }

\* payloads of an artifact
Payloads == {"bytes1", "bytes2"}

analyzeVars == <<variant, subjects, pc, planned, plan, i, spc, err, built, called,
                 loopVars, narrative, results, files, compiled, report, abortMsg,
                 requested, verdict>>

\* the executionId a run gets from its caller: the analyze command of
\* index.ts calls analyze(reportConfig, outputDir, awsCredentials) and passes
\* none; the cli mints a ULID
executionIdOf(caller, n) == IF caller = "index" THEN "undefined" ELSE Ulids[n]

\* path.join throws a TypeError on an argument that is not a string
pathJoinThrows(segs) == "undefined" \in Range(segs)

RECURSIVE normalize(_, _)
\* path.normalize: a ".." segment removes the segment before it
normalize(acc, segs) ==
    IF segs = <<>>
    THEN acc
    ELSE LET seg == Head(segs)
         IN  IF seg = ".." /\ acc # <<>> /\ acc[Len(acc)] # ".."
             THEN normalize(SubSeq(acc, 1, Len(acc) - 1), Tail(segs))
             ELSE normalize(Append(acc, seg), Tail(segs))

\* path.join(...segs)
pathJoin(segs) == normalize(<<>>, segs)

\* `${serviceRegion}-analysis.md` with serviceRegion = `${service}-${region}`
\* (the service name has white space replaced, nothing else)
reportFile(service, region) ==
    SubSeq(service, 1, Len(service) - 1)
        \o << service[Len(service)] \o "-" \o region \o "-analysis.md" >>

\* generateAnalysisPaths(...).reportPath
stepReportPath(base, executionId, service, region) ==
    pathJoin(pathJoin(<<base, executionId>>) \o reportFile(service, region))

\* path.join(path.join(outputDir, executionId), 'report.md')
reportMdPath(base, executionId) == pathJoin(pathJoin(<<base, executionId>>) \o <<"report.md">>)

mintCallId_Fixed(n) == Ulids[1]

\* the call-local identifier an adapter call mints before it writes
mintCallId(n) == Ulids[n]

\* <execution-id>/<Service>-<region>/<tool-name>/<ulid>-data.json
artifactPath(base, executionId, service, region, tool, callId) ==
    pathJoin(<<base, executionId, service \o "-" \o region, tool, callId \o "-data.json">>)

InitStore ==
    /\ variant = "adapter"
    /\ pc = "store"
    /\ subjects = "unknown"
    /\ planned = FALSE
    /\ plan = <<>>
    /\ i = 0
    /\ spc = "none"
    /\ err = "none"
    /\ built = <<>>
    /\ called = <<>>
    /\ turns = 0
    /\ text = ""
    /\ calls = <<>>
    /\ finished = <<>>
    /\ responses = <<>>
    /\ toolFailed = FALSE
    /\ narrative = ""
    /\ results = <<>>
    /\ files = {}
    /\ compiled = "none"
    /\ report = NoReport
    /\ abortMsg = <<>>
    /\ requested = <<>>
    /\ verdict = NoVerdict
    /\ runIds = [r \in Runs |-> "unset"]
    /\ written = {}
    /\ artifacts = <<>>
    /\ minted = 0
    /\ cost = "none"
    /\ chart = "none"
    /\ regen = "none"

\* a run is started: its caller hands analyze() the executionId
StartRun ==
    /\ pc = "store"
    /\ \E r \in Runs, caller \in {"index", "cli"} :
         /\ runIds[r] = "unset"
         /\ minted < Len(Ulids)
         /\ runIds' = [runIds EXCEPT ![r] = executionIdOf(caller, minted + 1)]
         /\ minted' = IF caller = "cli" THEN minted + 1 ELSE minted
    /\ UNCHANGED <<analyzeVars, sideVars, written, artifacts>>

\* generateStepReport of a started run: ensureDir(reportDir), writeFile(reportPath)
WriteStepReport ==
    /\ pc = "store"
    /\ \E r \in Runs, service \in StoreServices :
         /\ runIds[r] # "unset"
         /\ ~pathJoinThrows(<<outputRoot, runIds[r]>>)
         /\ written' = written \cup
               {[run |-> r, path |-> stepReportPath(outputRoot, runIds[r], service, "r1")]}
    /\ UNCHANGED <<analyzeVars, sideVars, runIds, artifacts, minted>>

\* analyze writes report.md of a started run
WriteReportMd ==
    /\ pc = "store"
    /\ \E r \in Runs :
         /\ runIds[r] # "unset"
         /\ ~pathJoinThrows(<<outputRoot, runIds[r]>>)
         /\ written' = written \cup {[run |-> r, path |-> reportMdPath(outputRoot, runIds[r])]}
    /\ UNCHANGED <<analyzeVars, sideVars, runIds, artifacts, minted>>

\* adapter calls made so far
NumCalls == Cardinality({artifacts[k].call : k \in 1..Len(artifacts)})

\* an adapter call of a run mints its identifier and writes its artifact
AdapterWrite ==
    /\ pc = "store"
    /\ Len(artifacts) < MaxWrites
    /\ minted < Len(Ulids)
    /\ \E r \in Runs, bytes \in Payloads :
         /\ runIds[r] \notin {"unset", "undefined"}
         /\ LET callId == mintCallId(minted + 1)
            IN  artifacts' = Append(artifacts,
                    [call   |-> NumCalls + 1,
                     run    |-> r,
                     callId |-> callId,
                     path   |-> artifactPath(outputRoot, runIds[r], "A", "r1", "toolX", callId),
                     bytes  |-> bytes])
         /\ minted' = minted + 1
    /\ UNCHANGED <<analyzeVars, sideVars, runIds, written>>

\* the artifact of an earlier call is written again, with other bytes
AdapterRewrite ==
    /\ pc = "store"
    /\ Len(artifacts) < MaxWrites
    /\ \E k \in 1..Len(artifacts), bytes \in Payloads :
         /\ bytes # artifacts[k].bytes
         /\ artifacts' = Append(artifacts, [artifacts[k] EXCEPT !.bytes = bytes])
    /\ UNCHANGED <<analyzeVars, sideVars, runIds, written, minted>>

NextStore ==
    \/ StartRun
    \/ WriteStepReport
    \/ WriteReportMd
    \/ AdapterWrite
    \/ AdapterRewrite

SpecStore == InitStore /\ [][NextStore]_vars

----------------------------------------------------------------------------
(* Operations called on their own: no run is in progress                   *)

Idle(p) ==
    /\ variant = "adapter"
    /\ pc = p
    /\ subjects = "unknown"
    /\ planned = FALSE
    /\ plan = <<>>
    /\ i = 0
    /\ spc = "none"
    /\ err = "none"
    /\ built = <<>>
    /\ called = <<>>
    /\ turns = 0
    /\ text = ""
    /\ calls = <<>>
    /\ finished = <<>>
    /\ responses = <<>>
    /\ toolFailed = FALSE
    /\ narrative = ""
    /\ results = <<>>
    /\ files = {}
    /\ compiled = "none"
    /\ report = NoReport
    /\ abortMsg = <<>>
    /\ requested = <<>>
    /\ verdict = NoVerdict
    /\ runIds = [r \in Runs |-> "unset"]
    /\ written = {}
    /\ artifacts = <<>>
    /\ minted = 0

----------------------------------------------------------------------------
(* getTopServiceRegionCombos and parseCostData, called on their own.  Both  *)
(* files that define them are modelled: the exported function of           *)
(* src/unnamed/part_002 (the one analyzer.ts imports) and the method of    *)
(* the class AWSService of src/src/aws-service.ts.  A string is a sequence *)
(* of symbols; the two characters ", " are the one symbol SEP.             *)

\* dimension entries of one data source answer
MaxEntries == 3

\* a cost is one of 0..MaxCost
MaxCost == 2

\* topN is one of 1..MaxTop
MaxTop == 3

\* symbols of the longest dimension key
MaxKeyLen == 5

SEP == ", "

KeyChars == {"a", "r", SEP}

\* every dimension key of at most MaxKeyLen symbols
AllKeys == SeqsUpTo(KeyChars, MaxKeyLen)

\* the keys of the answers with several entries
SampleKeys == { <<"a">>, <<"a", SEP, "r">>, <<"r", SEP, "r">> }

Costs == 0 .. MaxCost

CostVariants == {"function", "class"}

\* Object.entries(datapoint.dimensions) over all datapoints, in iteration order
Datapoints ==
    SeqsUpTo([key : SampleKeys, cost : Costs], MaxEntries)
        \cup { << [key |-> k, cost |-> 1] >> : k \in AllKeys }

RECURSIVE splitFrom(_, _, _)
\* String.prototype.split(', '): parts collects the finished parts, cur the
\* symbols read since the last separator
splitFrom(parts, cur, rest) ==
    IF rest = <<>>
    THEN Append(parts, cur)
    ELSE IF Head(rest) = SEP
         THEN splitFrom(Append(parts, cur), <<>>, Tail(rest))
         ELSE splitFrom(parts, Append(cur, Head(rest)), Tail(rest))

split(key) == splitFrom(<<>>, <<>>, key)

RECURSIVE join(_)
\* Array.prototype.join(', ')
join(parts) ==
    IF parts = <<>>
    THEN <<>>
    ELSE IF Len(parts) = 1
         THEN parts[1]
         ELSE parts[1] \o <<SEP>> \o join(Tail(parts))

\* the service and the region parseCostData reads from a dimension key
parseKey(v, key) ==
    LET parts == split(key)
    IN  IF Len(parts) >= 2
        THEN IF v = "class"
             THEN [service |-> join(SubSeq(parts, 1, Len(parts) - 1)),
                   region  |-> parts[Len(parts)]]
             ELSE [service |-> parts[1], region |-> parts[2]]
        ELSE [service |-> key,
              region  |-> IF v = "class" THEN <<"global">> ELSE <<"unknown">>]

\* the class pushes a combination only if (cost > 0); the function pushes all
pushes(v, c) == v = "function" \/ c > 0

RECURSIVE parseCostData(_, _)
parseCostData(v, entries) ==
    IF entries = <<>>
    THEN <<>>
    ELSE LET e   == Head(entries)
             sr  == parseKey(v, e.key)
             one == IF pushes(v, e.cost)
                    THEN << [service |-> sr.service, region |-> sr.region, cost |-> e.cost] >>
                    ELSE <<>>
         IN  one \o parseCostData(v, Tail(entries))

\* the comparator of the sort: (a, b) => b.cost - a.cost
compareCost_Ascending(a, b) == a.cost - b.cost

compareCost(a, b) == b.cost - a.cost

RECURSIVE insertSorted(_, _)
\* x goes behind every element the comparator does not put after it
insertSorted(sorted, x) ==
    IF sorted = <<>>
    THEN <<x>>
    ELSE IF compareCost(Head(sorted), x) <= 0
         THEN <<Head(sorted)>> \o insertSorted(Tail(sorted), x)
         ELSE <<x>> \o sorted

RECURSIVE sort(_)
\* Array.prototype.sort with the comparator: stable
sort(combos) ==
    IF combos = <<>>
    THEN <<>>
    ELSE insertSorted(sort(SubSeq(combos, 1, Len(combos) - 1)), combos[Len(combos)])

\* Array.prototype.slice(0, n) for n >= 0
slice(s, n) == IF Len(s) <= n THEN s ELSE SubSeq(s, 1, n)

InitCost ==
    /\ Idle("cost")
    /\ cost \in [variant : CostVariants, datapoints : Datapoints, topN : 1 .. MaxTop,
                 phase : {"called"}, combos : {<<>>}]
    /\ chart = "none"
    /\ regen = "none"

\* invoke() answers; parseCostData, sort and slice run in the same stretch
GetTopServiceRegionCombos ==
    /\ pc = "cost"
    /\ cost.phase = "called"
    /\ \E answer \in {"data", "throws"} :
          cost' = IF answer = "throws"
                  THEN [cost EXCEPT !.phase = "threw"]
                  ELSE [cost EXCEPT !.phase = "returned",
                                    !.combos = slice(sort(parseCostData(cost.variant, cost.datapoints)),
                                                     cost.topN)]
    /\ UNCHANGED <<analyzeVars, storeVars, chart, regen>>

NextCost == GetTopServiceRegionCombos

SpecCost == InitCost /\ [][NextCost]_vars

----------------------------------------------------------------------------
(* generateReportFromExisting(executionId, outputDir, credentials), called *)
(* once or several times on one execution directory.  A file name is the   *)
(* sequence of its pieces; the directory is a function from the names it   *)
(* holds to their contents.                                                *)

\* calls of generateReportFromExisting on the same directory
MaxRegen == 2

analysisSuffix == "-analysis.md"

\* names an execution directory may hold
FileNames == { <<"A", analysisSuffix>>, <<"B", analysisSuffix>>, <<".", "C", analysisSuffix>>,
               <<"report", ".md">>, <<"notes", ".txt">> }

reportMd == <<"report", ".md">>

\* fs.readdir lists the names in this order
ListingOrder == << <<".", "C", analysisSuffix>>, <<"A", analysisSuffix>>, <<"B", analysisSuffix>>,
                   <<"notes", ".txt">>, <<"report", ".md">> >>

\* file.endsWith('.md')
isAnalysisFile_AnyMd(file) == file[Len(file)] \in {analysisSuffix, ".md"}

\* file.endsWith('-analysis.md') && !file.startsWith('.')
isAnalysisFile(file) == file[Len(file)] = analysisSuffix /\ file[1] # "."

\* what a file holds: a step report written by analyze, or a compiled report
StepContent(file) == [kind |-> "step", from |-> <<file>>]

OldReport == [kind |-> "old", from |-> <<>>]

\* fs.readdir(executionPath)
readdir(dir) == SelectSeq(ListingOrder, LAMBDA f : f \in DOMAIN dir)

\* results.length === 0 after the read loop
noneRead_Never(res) == FALSE

noneRead(res) == res = <<>>

NoRegenCall == [phase |-> "start", listed |-> <<>>, k |-> 0, results |-> <<>>,
                compiled |-> OldReport, error |-> "none"]

InitRegen ==
    /\ Idle("regen")
    /\ cost = "none"
    /\ chart = "none"
    /\ \E present \in SUBSET FileNames : \E unreadable \in SUBSET present : \E exists \in BOOLEAN :
          /\ exists \/ present = {}
          /\ \A f \in unreadable : isAnalysisFile(f)
          /\ regen = [exists     |-> exists,
                      dir        |-> [f \in present |-> IF f = reportMd THEN OldReport ELSE StepContent(f)],
                      before     |-> [f \in present |-> IF f = reportMd THEN OldReport ELSE StepContent(f)],
                      unreadable |-> unreadable,
                      call       |-> NoRegenCall,
                      calls      |-> 1,
                      inputs     |-> <<>>]

regenRest == <<analyzeVars, storeVars, cost, chart>>

regenThrow(msg) == regen' = [regen EXCEPT !.call.phase = "threw", !.call.error = msg]

\* if (!await fs.pathExists(executionPath)) throw
CheckExecutionDir ==
    /\ pc = "regen"
    /\ regen.call.phase = "start"
    /\ IF regen.exists
       THEN regen' = [regen EXCEPT !.call.phase = "readdir"]
       ELSE regenThrow("Execution directory not found")
    /\ UNCHANGED regenRest

\* fs.readdir answers; the filter and the length check follow
ListAnalysisFiles ==
    /\ pc = "regen"
    /\ regen.call.phase = "readdir"
    /\ \E answer \in {"names", "throws"} :
          IF answer = "throws"
          THEN regenThrow("readdir")
          ELSE LET analysisMarkdownFiles == SelectSeq(readdir(regen.dir), isAnalysisFile)
               IN  IF Len(analysisMarkdownFiles) = 0
                   THEN regenThrow("No analysis files found")
                   ELSE regen' = [regen EXCEPT !.call.phase = "reading", !.call.k = 1,
                                               !.call.listed = analysisMarkdownFiles]
    /\ UNCHANGED regenRest

\* one pass of the read loop: fs.readFile answers or throws, and a throw is
\* only a warning; after the last file the length check follows
ReadAnalysisFile ==
    /\ pc = "regen"
    /\ regen.call.phase = "reading"
    /\ LET fileName == regen.call.listed[regen.call.k]
           res      == IF fileName \in regen.unreadable
                       THEN regen.call.results
                       ELSE Append(regen.call.results,
                                   [path |-> fileName, content |-> regen.dir[fileName]])
       IN  IF regen.call.k < Len(regen.call.listed)
           THEN regen' = [regen EXCEPT !.call.k = @ + 1, !.call.results = res]
           ELSE IF noneRead(res)
                THEN regen' = [regen EXCEPT !.call.phase = "threw", !.call.results = res,
                                            !.call.error = "Could not read any analysis files"]
                ELSE regen' = [regen EXCEPT !.call.phase = "compiling", !.call.results = res]
    /\ UNCHANGED regenRest

\* compileComprehensiveReport(results, executionId, model): the text of the
\* model, or the fallback report when the model call throws
CompileExisting ==
    /\ pc = "regen"
    /\ regen.call.phase = "compiling"
    /\ \E kind \in {"synthesis", "fallback"} :
          LET paths == [n \in 1 .. Len(regen.call.results) |-> regen.call.results[n].path]
          IN  regen' = [regen EXCEPT !.call.phase = "writing",
                                     !.call.compiled = [kind |-> kind, from |-> paths],
                                     !.inputs = Append(@, paths)]
    /\ UNCHANGED regenRest

\* fs.writeFile(path.join(executionPath, 'report.md'), compiledReport)
WriteCompiledReport ==
    /\ pc = "regen"
    /\ regen.call.phase = "writing"
    /\ \E answer \in {"written", "throws"} :
          IF answer = "throws"
          THEN regenThrow("writeFile")
          ELSE regen' = [regen EXCEPT
                            !.call.phase = "returned",
                            !.dir = [f \in DOMAIN regen.dir \cup {reportMd} |->
                                        IF f = reportMd THEN regen.call.compiled ELSE regen.dir[f]]]
    /\ UNCHANGED regenRest

\* the command is run again on the same execution id
RunAgain ==
    /\ pc = "regen"
    /\ regen.call.phase \in {"returned", "threw"}
    /\ regen.calls < MaxRegen
    /\ regen' = [regen EXCEPT !.call = NoRegenCall, !.calls = @ + 1]
    /\ UNCHANGED regenRest

NextRegen ==
    \/ CheckExecutionDir
    \/ ListAnalysisFiles
    \/ ReadAnalysisFile
    \/ CompileExisting
    \/ WriteCompiledReport
    \/ RunAgain

SpecRegen == InitRegen /\ [][NextRegen]_vars

----------------------------------------------------------------------------
(* One tool adapter call, with the rendering of the chart it may carry.    *)
(* The adapter is either the inline execute of src/src/llm.ts, or the      *)
(* adapter of the adapter module (steps (1)-(4) of an adapter call).  The  *)
(* renderer is generatePNGChart, in its two copies: src/src/chartUtils.ts  *)
(* ("plain") and src/unnamed/part_005 ("sanitizing").                      *)

\* chunks of the image stream
MaxChunks == 2

Adapters == {"module", "inline"}

Renderers == {"plain", "sanitizing"}

\* what the data source answers: a summary, and maybe datapoints and a chart
\* specification, which may lack its mark or its encoding
Answers ==
    { a \in [datapoints : BOOLEAN, chart : BOOLEAN, mark : BOOLEAN, encoding : BOOLEAN] :
         ~a.chart => (~a.mark /\ ~a.encoding) }

NoToolResult == [kind |-> "none", cause |-> "none", rawData |-> FALSE, rawChart |-> FALSE,
                 dataPath |-> FALSE, chartPath |-> FALSE, chartAnalysis |-> FALSE]

\* catch (error) { return { error: message } }
errorResult(cause) == [NoToolResult EXCEPT !.kind = "error", !.cause = cause]

\* execute of src/src/llm.ts: return result
inlineResult(a) == [NoToolResult EXCEPT !.kind = "ok", !.rawData = a.datapoints, !.rawChart = a.chart]

\* step (4): the payload fields replaced by references
moduleResult(a) == [NoToolResult EXCEPT !.kind = "ok", !.dataPath = a.datapoints,
                                        !.chartPath = a.chart, !.chartAnalysis = a.chart]

hasChart_Always(a) == TRUE

\* "if the tool returns a vega-lite chart specification in the chart property"
hasChart(a) == a.chart

\* sanitizeChartSpec: if (!spec.mark) spec.mark = 'bar'; if (!spec.encoding) spec.encoding = {}
sanitizeChartSpec(spec) == [spec EXCEPT !.mark = TRUE, !.encoding = TRUE]

\* the specification generatePNGChart hands to vegaLite.compile
compiledSpec(renderer, spec) == IF renderer = "sanitizing" THEN sanitizeChartSpec(spec) ELSE spec

\* vegaLite.compile throws on a specification that does not conform
compileRejects(spec) == ~spec.mark \/ ~spec.encoding

onOutEvent_Open(ev) ==
    IF ev \in {"open", "finish"} THEN "resolved" ELSE IF ev = "error" THEN "rejected" ELSE "pending"

\* out.on('finish', () => resolve()); out.on('error', reject): what an event
\* of the output stream does to the promise
onOutEvent(ev) ==
    IF ev = "finish" THEN "resolved" ELSE IF ev = "error" THEN "rejected" ELSE "pending"

InitChart ==
    /\ Idle("chart")
    /\ cost = "none"
    /\ regen = "none"
    /\ chart \in [adapter : Adapters, renderer : Renderers, answer : Answers,
                  phase : {"invoke"}, dataFile : {"absent"}, image : {"absent"},
                  chunks : {0}, source : {"none"}, out : {"none"}, promise : {"none"},
                  rendererCalls : {0}, critiqueCalls : {0}, result : {NoToolResult}]

chartRest == <<analyzeVars, storeVars, cost, regen>>

\* the adapter returns
returns(c, r) == [c EXCEPT !.phase = "returned", !.result = r]

\* generatePNGChart is called: await loadVegaLibraries()
callRenderer(c) == [c EXCEPT !.phase = "load", !.promise = "pending", !.rendererCalls = @ + 1]

\* after the data is persisted (or there was none): render, or return
afterData(c) == IF hasChart(c.answer) THEN callRenderer(c) ELSE returns(c, moduleResult(c.answer))

\* the promise of generatePNGChart settles; the adapter goes on to the image
\* critique, or to its catch
settle(c, to) ==
    IF to = "resolved"
    THEN [c EXCEPT !.promise = "resolved", !.phase = "critique", !.critiqueCalls = @ + 1]
    ELSE IF to = "rejected"
         THEN returns([c EXCEPT !.promise = "rejected"], errorResult("render"))
         ELSE c

\* step (1): invoke(toolName, params, config) answers or throws
InvokeDataSource ==
    /\ pc = "chart"
    /\ chart.phase = "invoke"
    /\ \E threw \in BOOLEAN :
          chart' = IF threw
                   THEN returns(chart, errorResult("invoke"))
                   ELSE IF chart.adapter = "inline"
                        THEN returns(chart, inlineResult(chart.answer))
                        ELSE IF chart.answer.datapoints
                             THEN [chart EXCEPT !.phase = "persist", !.dataFile = "partial"]
                             ELSE afterData(chart)
    /\ UNCHANGED chartRest

\* step (2): the write of the data file completes or throws
PersistData ==
    /\ pc = "chart"
    /\ chart.phase = "persist"
    /\ \E threw \in BOOLEAN :
          chart' = IF threw
                   THEN returns(chart, errorResult("persist"))
                   ELSE afterData([chart EXCEPT !.dataFile = "complete"])
    /\ UNCHANGED chartRest

\* loadVegaLibraries answers; vegaLite.compile, mkdirSync, vega.parse and
\* new vega.View follow, up to await canvasView.toCanvas()
CompileChart ==
    /\ pc = "chart"
    /\ chart.phase = "load"
    /\ \E threw \in BOOLEAN :
          chart' = IF threw \/ compileRejects(compiledSpec(chart.renderer, chart.answer))
                   THEN settle(chart, "rejected")
                   ELSE [chart EXCEPT !.phase = "canvas"]
    /\ UNCHANGED chartRest

\* toCanvas answers; fs.createWriteStream creates the file, stream.pipe(out)
\* starts the streaming, the promise waits for the events of out
StartStreaming ==
    /\ pc = "chart"
    /\ chart.phase = "canvas"
    /\ \E threw \in BOOLEAN :
          chart' = IF threw
                   THEN settle(chart, "rejected")
                   ELSE [chart EXCEPT !.phase = "streaming", !.image = "empty",
                                      !.source = "flowing", !.out = "opening"]
    /\ UNCHANGED chartRest

\* out emits 'open'
OutOpen ==
    /\ pc = "chart"
    /\ chart.phase = "streaming"
    /\ chart.out = "opening"
    /\ chart' = settle([chart EXCEPT !.out = "open"], onOutEvent("open"))
    /\ UNCHANGED chartRest

\* the image source emits a chunk and the pipe writes it to out
StreamChunk ==
    /\ pc = "chart"
    /\ chart.phase = "streaming"
    /\ chart.out = "open"
    /\ chart.source = "flowing"
    /\ chart.chunks < MaxChunks
    /\ chart' = [chart EXCEPT !.chunks = @ + 1, !.image = "partial"]
    /\ UNCHANGED chartRest

\* the image source emits 'end' and the pipe calls out.end()
SourceEnd ==
    /\ pc = "chart"
    /\ chart.phase = "streaming"
    /\ chart.out = "open"
    /\ chart.source = "flowing"
    /\ chart.chunks >= 1
    /\ chart' = [chart EXCEPT !.source = "ended"]
    /\ UNCHANGED chartRest

\* out has flushed everything and emits 'finish'
OutFinish ==
    /\ pc = "chart"
    /\ chart.phase = "streaming"
    /\ chart.out = "open"
    /\ chart.source = "ended"
    /\ chart' = settle([chart EXCEPT !.out = "finished", !.image = "complete"], onOutEvent("finish"))
    /\ UNCHANGED chartRest

\* out emits 'error' (the disk is full, the directory is gone)
OutError ==
    /\ pc = "chart"
    /\ chart.phase = "streaming"
    /\ chart.out \in {"opening", "open"}
    /\ chart' = settle([chart EXCEPT !.out = "failed"], onOutEvent("error"))
    /\ UNCHANGED chartRest

\* the image source emits 'error': nothing listens for it and pipe does not
\* pass it to out, which is left open.  The emitter throws the error as an
\* uncaught exception, which ends the process unless a process-wide handler
\* swallows it
SourceError ==
    /\ pc = "chart"
    /\ chart.phase = "streaming"
    /\ chart.out = "open"
    /\ chart.source = "flowing"
    /\ \E outcome \in {"left open", "process ended"} :
          chart' = [chart EXCEPT !.source = "failed", !.phase = outcome]
    /\ UNCHANGED chartRest

\* step (3), second half: the image critique of the model answers or throws
CritiqueChart ==
    /\ pc = "chart"
    /\ chart.phase = "critique"
    /\ \E threw \in BOOLEAN :
          chart' = IF threw
                   THEN returns(chart, errorResult("critique"))
                   ELSE returns(chart, moduleResult(chart.answer))
    /\ UNCHANGED chartRest

NextChart ==
    \/ InvokeDataSource
    \/ PersistData
    \/ CompileChart
    \/ StartStreaming
    \/ OutOpen
    \/ StreamChunk
    \/ SourceEnd
    \/ OutFinish
    \/ OutError
    \/ SourceError
    \/ CritiqueChart

SpecChart == InitChart /\ [][NextChart]_vars

----------------------------------------------------------------------------
(* Properties                                                              *)

Unknown(names) == {n \in Range(names) : n \notin Range(tools)}

Last(s) == s[Len(s)]

\* C1: when analyze() returns after a plan was made, results holds exactly one
\* entry per planned step, the k-th entry being the one pushed for step k;
\* a failed step has an entry too, marked failed.
C1_OneResultPerStep ==
    (pc = "Done" /\ planned) =>
        /\ Len(results) = Len(plan)
        /\ \A k \in 1..Len(plan) : results[k].step = k

C1_Witness ==
    /\ pc = "Done"
    /\ planned
    /\ Len(plan) >= 2
    /\ \E k \in 1..Len(results) : results[k].failed
    /\ \E k \in 1..Len(results) : ~results[k].failed

\* C2: an exception of the step (validation, model call) that reached the
\* catch of the step is always followed by a failure entry for that step and
\* by the next step or the compilation, never by the end of the run.
C2_StepFailureIsolated ==
    [][(pc = "ExecutingSteps" /\ spc = "catch" /\ err \in {"validation", "model"}) =>
          /\ pc' \in {"ExecutingSteps", "Compiling"}
          /\ Len(results') = Len(results) + 1
          /\ Last(results').failed
          /\ Last(results').step = i]_vars

\* C3: the run is aborted only from Init, FetchingSubjects or Planning; once
\* the steps are executing the run can no longer abort.
C3_AbortOnlyBeforeSteps ==
    [][pc' = "Aborted" => pc \in {"Init", "FetchingSubjects", "Planning"}]_vars

\* C4: the planner call either returns a plan or aborts the run with an error
\* that names the planning failure; in the latter case there is no plan, no
\* step has run, no step result exists and no file was written.
C4_PlannerFailureAborts ==
    [][pc = "Planning" =>
          \/ planned'
          \/ /\ pc' = "Aborted"
             /\ abortMsg' = <<"Analysis failed", "Failed to plan analysis", "provider">>
             /\ ~planned'
             /\ plan' = <<>>
             /\ called' = <<>>
             /\ built' = <<>>
             /\ results' = <<>>
             /\ files' = {}
             /\ compiled' = "none"]_vars

C4_Witness ==
    /\ pc = "Aborted"
    /\ Len(abortMsg) >= 2
    /\ abortMsg[2] = "Failed to plan analysis"
    /\ files = {}

\* C5: validateTools throws iff a requested name is missing from the catalog;
\* the error lists exactly the missing requested names and the whole catalog.
C5_ValidateExact ==
    pc = "validated" =>
        /\ verdict.threw <=> Unknown(requested) # {}
        /\ verdict.threw =>
              /\ Range(verdict.invalidTools) = Unknown(requested)
              /\ verdict.availableTools = tools

C5_Witness ==
    /\ pc = "validated"
    /\ verdict.threw
    /\ Len(verdict.invalidTools) < Len(requested)
    /\ requested[1] \in Range(tools)

\* C6: a step that names an unknown capability never gets an adapter built
\* and never gets a model call, whatever valid names it also lists.
C6_AllOrNothingBinding ==
    \A k \in 1..Len(plan) :
        Unknown(plan[k].useTools) # {} => (built[k] = {} /\ ~called[k])

C6_Witness ==
    \E k \in 1..Len(results) :
        /\ results[k].failed
        /\ plan[results[k].step].useTools = <<"toolX", "toolZ">>

\* C7 as stated: when the unknown capability of a step is reported, no step of
\* the plan has run its tool-calling loop or written a report.
C7_FailFastBeforeAnyStep ==
    (pc = "ExecutingSteps" /\ spc = "catch" /\ err = "validation") =>
        /\ results = <<>>
        /\ files = {}
        /\ \A k \in 1..Len(plan) : ~called[k]

\* C7 amended: the unknown capability of a step is reported when that step
\* begins, before the step builds an adapter or calls the model; the steps
\* planned before it have all been executed and recorded by then.
C7_FailFastWithinStep ==
    (pc = "ExecutingSteps" /\ spc = "catch" /\ err = "validation") =>
        /\ Unknown(plan[i].useTools) # {}
        /\ built[i] = {}
        /\ ~called[i]
        /\ Len(results) = i - 1
        /\ \A k \in 1..(i - 1) : results[k].step = k /\ results[k].path \in files

C7_Witness ==
    /\ pc = "ExecutingSteps"
    /\ spc = "catch"
    /\ err = "validation"
    /\ i = 2
    /\ called[1]
    /\ ~results[1].failed

\* C8: the tool-calling loop of a step makes at most 99 model turns (5 in the
\* legacy variant), and waits for a further turn only while turns are left.
C8_TurnsWithinBudget ==
    LET budget == IF variant = "legacy" THEN 5 ELSE 99
    IN  /\ turns <= budget
        /\ (pc = "ExecutingSteps" /\ spc = "model") => turns < budget

C8_Witness ==
    /\ variant = "adapter"
    /\ turns = 99
    /\ calls # <<>>
    /\ Len(responses) = Len(calls)
    /\ spc = "report"

\* C9: the loop stops at a turn without tool request or when the budget is
\* used up; in the second case the call returns the text of the last turn as
\* its normal result, and the step is then recorded without failure marker.
C9_BudgetExhaustionSoft ==
    [][pc = "ExecutingSteps" =>
          /\ (spc \in {"model", "tools"} /\ spc' = "report") =>
                (calls' = <<>> \/ turns' = stepBudget(variant))
          /\ (spc = "tools" /\ turns = stepBudget(variant) /\ spc' # "tools") =>
                (spc' = "report" /\ narrative' = text /\ err' = err)
          /\ (spc = "report" /\ Len(results') > Len(results)) =>
                (~Last(results').failed /\ Last(results').content = <<narrative>>)]_vars

C9_Witness ==
    /\ pc = "ExecutingSteps"
    /\ spc = "report"
    /\ variant = "legacy"
    /\ turns = 5
    /\ calls # <<>>
    /\ narrative = "narrative"

\* C10: the requests of a turn have distinct ids; no response is appended
\* while an adapter of the turn is still running; once they are appended there
\* is exactly one response per request, with the id and the tool of the
\* request at the same position, and only then the next turn is awaited.
C10_ResponsesInRequestOrder ==
    pc = "ExecutingSteps" =>
        /\ \A k \in 1..Len(calls) : calls[k].id = <<turns, k>>
        /\ spc = "tools" => (calls # <<>> /\ responses = <<>>)
        /\ (spc = "model" /\ turns > 0) => calls # <<>>
        /\ spc \in {"model", "report"} =>
              /\ Len(responses) = Len(calls)
              /\ \A k \in 1..Len(calls) :
                    /\ responses[k].id = calls[k].id
                    /\ responses[k].tool = calls[k].tool

C10_Witness ==
    /\ pc = "ExecutingSteps"
    /\ spc = "model"
    /\ turns = 2
    /\ Len(calls) = 2
    /\ finished = <<2, 1>>
    /\ Len(responses) = 2

ScenarioPlan ==
    << [service |-> "A", region |-> "r1", useTools |-> <<"toolX">>],
       [service |-> "B", region |-> "r1", useTools |-> <<"toolX">>] >>

C13_FallbackListsEveryResult ==
    compiled = "fallback" =>
        /\ report.fallback.total = Len(results)
        /\ Len(report.fallback.listing) = Len(results)
        /\ \A k \in 1..Len(results) :
              /\ report.fallback.listing[k].link = results[k].path
              /\ report.fallback.listing[k].status =
                    IF results[k].failed THEN "Failed" ELSE "Completed"

\* C14: the synthesis prompt holds the narratives of exactly the step results
\* that did not fail, whatever the model wrote in them.
C14_PromptHoldsEveryNonFailed ==
    compiled # "none" =>
        LET notFailed(r) == ~r.failed
            kept         == SelectSeq(results, notFailed)
        IN  [j \in 1..Len(report.overview) |-> report.overview[j].content] =
                [j \in 1..Len(kept) |-> kept[j].content]

\* C15: the k-th entry of results is the result of the k-th planned step,
\* failed or not; the compiler is handed that list, and the fallback report
\* renders one entry per result in the same order.
C15_ResultsKeepPlanOrder ==
    /\ \A k \in 1..Len(results) :
          /\ results[k].step = k
          /\ results[k].path = generateAnalysisPaths(serviceRegion(plan[k]))
    /\ compiled # "none" => report.total = Len(results)
    /\ compiled = "fallback" =>
          [k \in 1..Len(report.fallback.listing) |-> report.fallback.listing[k].link] =
              [k \in 1..Len(results) |-> results[k].path]

C15_Witness ==
    /\ pc = "Done"
    /\ compiled = "fallback"
    /\ Len(results) = 2
    /\ results[1].failed
    /\ ~results[2].failed
    /\ results[1].path # results[2].path
    /\ report.fallback.listing[1].status = "Failed"
    /\ report.fallback.listing[2].status = "Completed"

C17_EmptySubjectsEndQuietly ==
    subjects = "empty" =>
        /\ pc = "Done"
        /\ abortMsg = <<>>
        /\ ~planned
        /\ plan = <<>>
        /\ built = <<>>
        /\ called = <<>>
        /\ results = <<>>
        /\ files = {}
        /\ compiled = "none"

C17_Witness ==
    /\ subjects = "empty"
    /\ pc = "Done"
    /\ results = <<>>

\* C18: an aborted run names its cause and was aborted by a configuration or
\* a planning failure, that is before any plan existed.
C18_AbortOnlyForConfigOrPlanning ==
    pc = "Aborted" =>
        /\ Len(abortMsg) >= 2
        /\ abortMsg[1] = "Analysis failed"
        /\ ~planned

\* the file at `path` belongs to the execution directory of run r
UnderExecDir(path, r) ==
    /\ Len(path) > 2
    /\ path[1] = outputRoot
    /\ path[2] = runIds[r]

\* C19: two started runs never have the same execution id; every file of a
\* run lies under {outputRoot}/{executionId}/ of that run; two runs never
\* write the same path.
C19_RunsIsolated ==
    /\ \A r1, r2 \in Runs :
          (r1 # r2 /\ runIds[r1] # "unset" /\ runIds[r2] # "unset") =>
              runIds[r1] # runIds[r2]
    /\ \A w \in written : UnderExecDir(w.path, w.run)
    /\ \A k \in 1..Len(artifacts) : UnderExecDir(artifacts[k].path, artifacts[k].run)
    /\ \A w1, w2 \in written : w1.run # w2.run => w1.path # w2.path

\* the write that made the file now at `path`
FileAt(path) ==
    LET ks == {k \in 1..Len(artifacts) : artifacts[k].path = path}
    IN  artifacts[CHOOSE k \in ks : \A j \in ks : j <= k]

\* C20: two adapter calls have different identifiers and different artifact
\* paths, also for the same run, subject and tool; so the file at the path of
\* a call holds what that call wrote last, whatever the other calls write.
C20_CallsNeverCollide ==
    /\ \A k1, k2 \in 1..Len(artifacts) :
          artifacts[k1].call # artifacts[k2].call =>
              /\ artifacts[k1].callId # artifacts[k2].callId
              /\ artifacts[k1].path # artifacts[k2].path
    /\ \A k \in 1..Len(artifacts) :
          FileAt(artifacts[k].path).call = artifacts[k].call

C20_Witness ==
    /\ Len(artifacts) = 3
    /\ artifacts[1].call = 1
    /\ artifacts[2].call = 2
    /\ artifacts[3].call = 1
    /\ artifacts[1].run = artifacts[2].run
    /\ artifacts[3].bytes # artifacts[1].bytes
    /\ FileAt(artifacts[2].path).bytes = artifacts[2].bytes

\* how often x occurs in s
Count(s, x) == Cardinality({n \in 1 .. Len(s) : s[n] = x})

\* C25: getTopServiceRegionCombos(topN) returns at most topN combinations, in
\* order of non-increasing cost; they are the topN most expensive of the
\* parsed combinations (everything parsed that costs more than the cheapest
\* returned one is returned, as often as it was parsed), and a combination
\* parsed more than once is kept as often, neither rejected nor merged.
C25_TopNByCostKeepsDuplicates ==
    (pc = "cost" /\ cost.phase = "returned") =>
        LET parsed == parseCostData(cost.variant, cost.datapoints)
            top    == cost.combos
        IN  /\ Len(top) <= cost.topN
            /\ Len(top) = IF Len(parsed) <= cost.topN THEN Len(parsed) ELSE cost.topN
            /\ \A n \in 1 .. Len(top) - 1 : top[n].cost >= top[n + 1].cost
            /\ \A c \in Range(top) : Count(top, c) <= Count(parsed, c)
            /\ \A c \in Range(parsed) :
                  (top # <<>> /\ c.cost > top[Len(top)].cost) => Count(top, c) = Count(parsed, c)

\* more was parsed than asked for, and the same service and region came back twice
C25_Witness ==
    /\ pc = "cost"
    /\ cost.phase = "returned"
    /\ Len(parseCostData(cost.variant, cost.datapoints)) > cost.topN
    /\ \E m, n \in 1 .. Len(cost.combos) :
          /\ m < n
          /\ cost.combos[m].service = cost.combos[n].service
          /\ cost.combos[m].region = cost.combos[n].region
          /\ cost.combos[m].cost > cost.combos[n].cost

\* C29: a dimension key S + ", " + R whose R holds no ", " is parsed to the
\* service S and the region R, also when S itself holds ", "; a key with no
\* ", " is parsed to the whole key as the service and a placeholder region.
C29_KeySplitsAtLastSeparator ==
    (pc = "cost" /\ cost.phase = "returned" /\ Len(cost.datapoints) = 1 /\ cost.combos # <<>>) =>
        LET key == cost.datapoints[1].key
            got == cost.combos[1]
        IN  /\ \A n \in 1 .. Len(key) :
                  (key[n] = SEP /\ \A m \in n + 1 .. Len(key) : key[m] # SEP) =>
                      /\ got.service = SubSeq(key, 1, n - 1)
                      /\ got.region = SubSeq(key, n + 1, Len(key))
            /\ (\A n \in 1 .. Len(key) : key[n] # SEP) =>
                      /\ got.service = key
                      /\ got.region \in { <<"global">>, <<"unknown">> }

\* a name the pattern *-analysis.md matches (the * matches no leading dot)
MatchesAnalysisMd(f) == f[Len(f)] = "-analysis.md" /\ f[1] # "."

\* the analysis files of the directory that can be read
ReadableAnalysisFiles ==
    {f \in DOMAIN regen.before : MatchesAnalysisMd(f) /\ f \notin regen.unreadable}

C26_WitnessNoneReadable ==
    /\ pc = "regen"
    /\ regen.call.phase = "threw"
    /\ regen.call.error = "Could not read any analysis files"

\* C28: however often generateReportFromExisting is run on a directory, the
\* compiler is handed the same *-analysis.md step reports every time, never
\* report.md, and no file other than report.md changes.
C28_RegenInputsStable ==
    pc = "regen" =>
        /\ \A m, n \in 1 .. Len(regen.inputs) : regen.inputs[m] = regen.inputs[n]
        /\ \A n \in 1 .. Len(regen.inputs) : \A f \in Range(regen.inputs[n]) :
              f # reportMd /\ MatchesAnalysisMd(f)
        /\ \A f \in DOMAIN regen.before \ {reportMd} :
              f \in DOMAIN regen.dir /\ regen.dir[f] = regen.before[f]

\* the second call compiled while the report.md of the first was in the directory
C28_Witness ==
    /\ pc = "regen"
    /\ regen.calls = 2
    /\ Len(regen.inputs) = 2
    /\ regen.call.phase = "returned"
    /\ regen.before = [f \in {<<"A", "-analysis.md">>} |-> StepContent(f)]

\* C27: when analyze() has completed, the report paths recorded for two
\* different steps of the plan are different, so every step has a report
\* file of its own, also when two steps name the same service and region.
C27_StepReportPathsDistinct ==
    pc = "Done" =>
        \A m, n \in 1 .. Len(results) :
            results[m].step # results[n].step => results[m].path # results[n].path

\* C21: the result an adapter hands back to the model never holds the raw
\* datapoints or the chart specification of the data source: a successful
\* result carries a data path for the datapoints and a chart path and a chart
\* critique for the chart, in their place.
C21_ResultHoldsReferencesOnly ==
    (pc = "chart" /\ chart.phase = "returned") =>
        /\ ~chart.result.rawData
        /\ ~chart.result.rawChart
        /\ chart.result.kind = "ok" =>
              /\ chart.result.dataPath = chart.answer.datapoints
              /\ chart.result.chartPath = chart.answer.chart
              /\ chart.result.chartAnalysis = chart.answer.chart

\* C22: an answer of the data source without a chart makes the adapter call
\* neither the renderer nor the image critique and return no chart reference;
\* an answer without datapoints makes it write no data file and return no
\* data path; neither absence is a failure: with both absent the adapter
\* returns an error result only if the data source call itself threw.
C22_MissingPayloadIsNoError ==
    pc = "chart" =>
        /\ ~chart.answer.chart =>
              /\ chart.rendererCalls = 0
              /\ chart.critiqueCalls = 0
              /\ chart.image = "absent"
              /\ ~chart.result.chartPath
              /\ ~chart.result.chartAnalysis
              /\ chart.result.cause \notin {"render", "critique"}
        /\ ~chart.answer.datapoints =>
              /\ chart.dataFile = "absent"
              /\ ~chart.result.dataPath
              /\ chart.result.cause # "persist"
        /\ (chart.phase = "returned" /\ chart.result.cause = "none") => chart.result.kind = "ok"

\* the adapter of the adapter module returned a successful result for an
\* answer that had datapoints and no chart
C22_Witness ==
    /\ pc = "chart"
    /\ chart.adapter = "module"
    /\ chart.phase = "returned"
    /\ chart.result.kind = "ok"
    /\ chart.answer.datapoints
    /\ ~chart.answer.chart
    /\ chart.result.dataPath

\* C23: the promise of generatePNGChart is resolved only when the output
\* stream has emitted 'finish' and the image file is complete; the image
\* critique is requested only for a complete image, and an adapter returns a
\* chart path or a data path only for a file that is completely written.
C23_WrittenBeforeReturn ==
    pc = "chart" =>
        /\ chart.promise = "resolved" => (chart.out = "finished" /\ chart.image = "complete")
        /\ chart.critiqueCalls > 0 => chart.image = "complete"
        /\ (chart.phase = "returned" /\ chart.result.chartPath) => chart.image = "complete"
        /\ (chart.phase = "returned" /\ chart.result.dataPath) => chart.dataFile = "complete"

\* an adapter call returned the references of a data file and of an image
\* that was streamed in several chunks
C23_Witness ==
    /\ pc = "chart"
    /\ chart.phase = "returned"
    /\ chart.result.chartPath
    /\ chart.result.dataPath
    /\ chart.promise = "resolved"
    /\ chart.chunks = 2

\* C24: for a chart specification that does not conform (no mark, or no
\* encoding) generatePNGChart fails and writes no image: its promise is never
\* resolved and no image file is created.
C24_RendererRejectsNonConforming ==
    (pc = "chart" /\ chart.answer.chart /\ ~(chart.answer.mark /\ chart.answer.encoding)) =>
        /\ chart.promise # "resolved"
        /\ chart.image = "absent"
        /\ chart.phase \in {"invoke", "persist", "load", "returned"}

\* C30: once generatePNGChart streams the image, its promise does not stay
\* pending with nothing left that could settle it: while it is pending, some
\* event of the rendering can still happen.
C30_RenderingAlwaysSettles ==
    (pc = "chart" /\ chart.promise = "pending") => ENABLED NextChart

====
